---- MODULE Spec2Model ----
(***************************************************************************)
(* Model of src/hog/eigenfaces.py: the image normalizer (_reshape), the    *)
(* corpus assembly, PCA fit and basis rendering of compute_eigenfaces, and *)
(* the artifact writes of plot_eigenfaces.                                 *)
(*                                                                         *)
(* A 2-D array is a sequence of rows, a row a sequence of numbers; a 3-D   *)
(* array has a sequence of channel samples in place of each number.  An    *)
(* image is [ndim |-> 2 or 3, data |-> array].  A call's outcome is        *)
(* [raised |-> BOOLEAN, value |-> ...].                                    *)
(***************************************************************************)
EXTENDS Integers, Sequences, FiniteSets, TLC

\* ------------------------------------------------------------------ bounds
\* Images of the normalizer specification: up to MaxHeight x MaxWidth, up to
\* MaxChannels channels, samples in 0..MaxPixel.
MaxHeight == 3
MaxWidth == 3
MaxChannels == 2
MaxPixel == 1

\* ------------------------------------------------------------------ numpy
\* image.shape
Shape(image) ==
  IF image.ndim = 2
    THEN <<Len(image.data), Len(image.data[1])>>
    ELSE <<Len(image.data), Len(image.data[1]), Len(image.data[1][1])>>

\* np.zeros((rows, cols))
np_zeros(rows, cols) == [r \in 1..rows |-> [c \in 1..cols |-> 0]]

\* np.vstack([b, a]): the padding stacked above the image.
np_vstack_swapped(a, b) ==
  IF Len(a[1]) # Len(b[1])
    THEN [raised |-> TRUE, value |-> <<>>]
    ELSE [raised |-> FALSE, value |-> b \o a]

\* np.vstack([a, b]) of two 2-D arrays: the column counts must agree.
np_vstack(a, b) ==
  IF Len(a[1]) # Len(b[1])
    THEN [raised |-> TRUE, value |-> <<>>]
    ELSE [raised |-> FALSE, value |-> a \o b]

\* np.hstack([a, b]) of two 2-D arrays: the row counts must agree.
np_hstack(a, b) ==
  IF Len(a) # Len(b)
    THEN [raised |-> TRUE, value |-> <<>>]
    ELSE [raised |-> FALSE, value |-> [r \in 1..Len(a) |-> a[r] \o b[r]]]

\* The elements of a 2-D array in C (row-major) order.
RECURSIVE Ravel(_)
Ravel(a) == IF a = <<>> THEN <<>> ELSE Head(a) \o Ravel(Tail(a))

\* a.reshape(1, size): the element count must be size; the single row is kept
\* as a plain sequence.
reshape_row(a, size) ==
  IF Len(a) * Len(a[1]) # size
    THEN [raised |-> TRUE, value |-> <<>>]
    ELSE [raised |-> FALSE, value |-> Ravel(a)]

\* image[:, :, -1]
channel_last(data) ==
  [r \in 1..Len(data) |->
     [c \in 1..Len(data[r]) |-> data[r][c][Len(data[r][c])]]]

\* image[:, :, 0]
channel_0(data) ==
  [r \in 1..Len(data) |-> [c \in 1..Len(data[r]) |-> data[r][c][1]]]

\* image[:height, :width]
Cropped(data, height, width) ==
  [r \in 1..height |-> [c \in 1..width |-> data[r][c]]]

\* _reshape's mismatch branch with the unhandled case cropped, not refused.
reshape_mismatch_cropping(image, height, width) ==
  LET actual_height == Shape(image)[1]
      actual_width == Shape(image)[2]
  IN  IF image.ndim = 3
        THEN [raised |-> FALSE, value |-> channel_0(image.data)]
      ELSE IF actual_height < height
        THEN np_vstack(image.data, np_zeros(height - actual_height, width))
      ELSE IF actual_width < width
        THEN np_hstack(image.data, np_zeros(height, width - actual_width))
      ELSE [raised |-> FALSE, value |-> Cropped(image.data, height, width)]

\* ------------------------------------------------------------- _reshape
\* The branch of _reshape taken when image.shape != (height, width).
reshape_mismatch(image, height, width) ==
  LET actual_height == Shape(image)[1]
      actual_width == Shape(image)[2]
  IN  IF image.ndim = 3
        THEN [raised |-> FALSE, value |-> channel_0(image.data)]
      ELSE IF actual_height < height
        THEN np_vstack(image.data, np_zeros(height - actual_height, width))
      ELSE IF actual_width < width
        THEN np_hstack(image.data, np_zeros(height, width - actual_width))
      ELSE [raised |-> TRUE, value |-> <<>>]

_reshape(image, height, width) ==
  LET fitted == IF Shape(image) # <<height, width>>
                  THEN reshape_mismatch(image, height, width)
                  ELSE [raised |-> FALSE, value |-> image.data]
  IN  IF fitted.raised
        THEN fitted
        ELSE reshape_row(fitted.value, height * width)

\* ------------------------------------------------------------- inputs
\* The sample at row r, column c, channel ch (from 0) of the image with
\* coefficients k: every image here is a linear pattern modulo MaxPixel + 1.
Sample(k, r, c, ch) == (k[1] * r + k[2] * c + k[3] * ch) % (MaxPixel + 1)

Gray(h, w, k) ==
  [ndim |-> 2, data |-> [r \in 1..h |-> [c \in 1..w |-> Sample(k, r, c, 0)]]]

Colour(h, w, n, k) ==
  [ndim |-> 3,
   data |-> [r \in 1..h |-> [c \in 1..w |->
               [ch \in 1..n |-> Sample(k, r, c, ch - 1)]]]]

Coefficients == (0..MaxPixel) \X (0..MaxPixel) \X (0..MaxPixel)

Images ==
  {Gray(h, w, k) : h \in 1..MaxHeight, w \in 1..MaxWidth, k \in Coefficients}
  \cup
  {Colour(s[1], s[2], s[3], k) :
     s \in (1..MaxHeight) \X (1..MaxWidth) \X (1..MaxChannels),
     k \in Coefficients}

NoImage == [ndim |-> 0, data |-> <<>>]
NoResult == [raised |-> FALSE, value |-> <<>>]

\* ------------------------------------------------------- pipeline bounds
\* Up to MaxN image paths, up to MaxK requested components, explained-variance
\* ratios in 0..MaxRatio (unit: a third of 0.0001 %).
MaxN == 2
MaxK == 2
MaxRatio == 2

\* The (height, width) configurations of the pipeline runs.
TargetShapes == {<<2, 2>>, <<1, 2>>, <<2, 1>>}

\* A path matimage.imread cannot read.
Unreadable == [ndim |-> 0, data |-> <<>>]

\* What the files named on the command line may hold, for target (h, w):
\* images of the target shape, a shorter and a narrower one, a two-channel
\* one, a taller one, and an unreadable file.
Corpus(h, w) ==
  {Gray(h, w, <<1, 0, 0>>), Gray(h, w, <<0, 1, 0>>),
   Colour(h, w, 2, <<1, 1, 1>>), Gray(h + 1, w, <<1, 0, 0>>), Unreadable}
  \cup (IF h > 1 THEN {Gray(h - 1, w, <<1, 1, 0>>)} ELSE {})
  \cup (IF w > 1 THEN {Gray(h, w - 1, <<1, 1, 0>>)} ELSE {})

\* ------------------------------------------------------- compute_eigenfaces
\* The rows stacked last first.
vstack_rows_reversed(rows) ==
  [k \in 1..Len(rows) |-> rows[Len(rows) - k + 1]]

\* np.vstack of the list of 1 x D rows: the N x D observation matrix.
vstack_rows(rows) == rows

Min(a, b) == IF a < b THEN a ELSE b

OneHot(d, j) == [c \in 1..d |-> IF c = j THEN 1 ELSE 0]

\* Non-increasing sequences of n ratios.
RatioLists(n) ==
  {q \in [1..n -> 0..MaxRatio] : \A a \in 1..n, b \in 1..n : a < b => q[a] >= q[b]}

\* RandomizedPCA(n_components).fit(X): the library's possible outcomes.  It
\* yields at most min(N, D) orthonormal directions (unit vectors here) with
\* non-increasing variance ratios; asked for more than that, it either raises
\* or yields the min(N, D) it has.
RandomizedPCA_fit(X, n_components) ==
  LET n == Len(X)
      d == Len(X[1])
      rank == Min(n_components, Min(n, d))
      fitted == {[raised |-> FALSE,
                  components_ |-> [k \in 1..rank |-> OneHot(d, ((j + k - 2) % d) + 1)],
                  explained_variance_ratio_ |-> q] :
                   j \in 1..d, q \in RatioLists(rank)}
  IN  IF n_components > Min(n, d)
        THEN fitted \cup {[raised |-> TRUE, components_ |-> <<>>,
                           explained_variance_ratio_ |-> <<>>]}
        ELSE fitted

\* v reshaped to (h, w).
Unravel(v, h, w) == [r \in 1..h |-> [c \in 1..w |-> v[(r - 1) * w + c]]]

\* A reshape to (-1, h, w): as many images as there are components.
reshape_3d_inferred(components, k, h, w) ==
  [raised |-> FALSE,
   value |-> [e \in 1..Len(components) |-> Unravel(components[e], h, w)]]

\* components.reshape((k, h, w)): the element counts must agree.
reshape_3d(components, k, h, w) ==
  IF Len(components) * Len(components[1]) # k * h * w
    THEN [raised |-> TRUE, value |-> <<>>]
    ELSE [raised |-> FALSE,
          value |-> [e \in 1..k |-> Unravel(components[e], h, w)]]

RECURSIVE ColumnSum(_, _)
ColumnSum(X, c) == IF X = <<>> THEN 0 ELSE Head(X)[c] + ColumnSum(Tail(X), c)

\* np.mean(X, axis=0): each mean is the fraction <<column sum, N>>.
np_mean_axis0(X) == [c \in 1..Len(X[1]) |-> <<ColumnSum(X, c), Len(X)>>]

\* eigenvector - mean_face, elementwise, as fractions over the mean's
\* denominator.
Minus(eigenvector, mean) ==
  [r \in 1..Len(mean) |-> [c \in 1..Len(mean[r]) |->
     <<eigenvector[r][c] * mean[r][c][2] - mean[r][c][1], mean[r][c][2]>>]]

\* --------------------------------------------------------- plot_eigenfaces
\* '%.4f' % (eigenvalue * 100): the ratio rounded to the nearest 0.0001 %
\* (three units).
percent_4f(eigenvalue) == (eigenvalue + 1) \div 3

MeanPath == <<"mean-face.png", 0>>
EigenfacePath(eigenvalue) == <<"%.4f%%.png", percent_4f(eigenvalue)>>
ModelPath == <<"pca.pickle.gz", 0>>

Png(matrix) == [kind |-> "png", body |-> matrix]
Pickle(model) ==
  [kind |-> "pickle",
   body |-> <<model.components_, model.explained_variance_ratio_>>]
Partial == [kind |-> "partial", body |-> <<>>]
Stale == [kind |-> "stale", body |-> <<>>]

\* The output directory before the run: missing, empty, or left by an
\* earlier run.
NoDir == [exists |-> FALSE, files |-> <<>>]
EmptyDir == [exists |-> TRUE, files |-> <<>>]
StaleDir ==
  [exists |-> TRUE,
   files |-> [p \in {ModelPath, EigenfacePath(0)} |-> Stale]]

\* The directory after a completed write of data at path.
Stored(d, path, data) ==
  [exists |-> TRUE,
   files |-> [p \in DOMAIN d.files \cup {path} |->
                IF p = path THEN data ELSE d.files[p]]]

\* What a write of data at path that raises can leave behind: nothing
\* (_makedirs or the open failed), the created directory, or a truncated file.
Interrupted(d, path) ==
  {d, [d EXCEPT !.exists = TRUE], Stored(d, path, Partial)}

NoPCA == [raised |-> FALSE, components_ |-> <<>>, explained_variance_ratio_ |-> <<>>]

VARIABLES pc, image, height, width, vector,
          image_paths, n_eigenfaces, rows, image_matrix, pca, eigenvectors,
          eigenvalues, mean_face, eigenfaces, i, dir, dir0, written, error

normalizer_vars == <<image, vector>>
config_vars == <<height, width, image_paths, n_eigenfaces, dir0>>
compute_vars == <<rows, image_matrix, pca, eigenvectors, eigenvalues,
                  mean_face, eigenfaces>>
writer_vars == <<i, dir, written>>
pipeline_vars == <<image_paths, n_eigenfaces, rows, image_matrix, pca,
                   eigenvectors, eigenvalues, mean_face, eigenfaces, i, dir,
                   dir0, written, error>>

vars == <<pc, image, height, width, vector, pipeline_vars>>

\* ------------------------------------------------- normalizer specification
InitNormalizer ==
  /\ pc = "call"
  /\ image \in Images
  /\ height \in 1..MaxHeight
  /\ width \in 1..MaxWidth
  /\ vector = NoResult
  /\ image_paths = <<>> /\ n_eigenfaces = 0 /\ rows = <<>>
  /\ image_matrix = <<>> /\ pca = NoPCA /\ eigenvectors = <<>>
  /\ eigenvalues = <<>> /\ mean_face = <<>> /\ eigenfaces = <<>>
  /\ i = 0 /\ dir = NoDir /\ dir0 = NoDir /\ written = <<>> /\ error = "none"

ReshapeReturns ==
  /\ pc = "call"
  /\ ~_reshape(image, height, width).raised
  /\ vector' = _reshape(image, height, width)
  /\ pc' = "returned"
  /\ UNCHANGED <<image, height, width, pipeline_vars>>

ReshapeRaises ==
  /\ pc = "call"
  /\ _reshape(image, height, width).raised
  /\ vector' = _reshape(image, height, width)
  /\ pc' = "raised"
  /\ UNCHANGED <<image, height, width, pipeline_vars>>

NextNormalizer == ReshapeReturns \/ ReshapeRaises

SpecNormalizer == InitNormalizer /\ [][NextNormalizer]_vars

\* --------------------------------------------------- pipeline specification
Init ==
  /\ pc = "load"
  /\ image = NoImage /\ vector = NoResult
  /\ \E shape \in TargetShapes :
       /\ height = shape[1]
       /\ width = shape[2]
       /\ \E n \in 1..MaxN : image_paths \in [1..n -> Corpus(shape[1], shape[2])]
  /\ n_eigenfaces \in 1..MaxK
  /\ rows = <<>> /\ image_matrix = <<>> /\ pca = NoPCA
  /\ eigenvectors = <<>> /\ eigenvalues = <<>> /\ mean_face = <<>>
  /\ eigenfaces = <<>> /\ i = 0
  /\ dir0 \in {NoDir, EmptyDir, StaleDir}
  /\ dir = dir0
  /\ written = <<>>
  /\ error = "none"

\* The next image of the generator, inside the list comprehension.
NextImage == image_paths[Len(rows) + 1]

\* matimage.imread raises on the next path.
ReadFails ==
  /\ pc = "load"
  /\ Len(rows) < Len(image_paths)
  /\ NextImage = Unreadable
  /\ pc' = "failed"
  /\ error' = "IOError"
  /\ UNCHANGED <<normalizer_vars, config_vars, compute_vars, writer_vars>>

\* _reshape raises on the next image.
NormalizeFails ==
  /\ pc = "load"
  /\ Len(rows) < Len(image_paths)
  /\ NextImage # Unreadable
  /\ _reshape(NextImage, height, width).raised
  /\ pc' = "failed"
  /\ error' = "ValueError"
  /\ UNCHANGED <<normalizer_vars, config_vars, compute_vars, writer_vars>>

\* The next image is read and normalized into a row of the list.
Normalize ==
  /\ pc = "load"
  /\ Len(rows) < Len(image_paths)
  /\ NextImage # Unreadable
  /\ ~_reshape(NextImage, height, width).raised
  /\ rows' = Append(rows, _reshape(NextImage, height, width).value)
  /\ UNCHANGED <<pc, normalizer_vars, config_vars, image_matrix, pca,
                 eigenvectors, eigenvalues, mean_face, eigenfaces,
                 writer_vars, error>>

\* The generator is exhausted: the rows are stacked into image_matrix.
Assemble ==
  /\ pc = "load"
  /\ Len(rows) = Len(image_paths)
  /\ image_matrix' = vstack_rows(rows)
  /\ pc' = "fit"
  /\ UNCHANGED <<normalizer_vars, config_vars, rows, pca, eigenvectors,
                 eigenvalues, mean_face, eigenfaces, writer_vars, error>>

\* RandomizedPCA(...).fit raises.
FitRaises ==
  /\ pc = "fit"
  /\ \E model \in RandomizedPCA_fit(image_matrix, n_eigenfaces) : model.raised
  /\ pc' = "failed"
  /\ error' = "ValueError"
  /\ UNCHANGED <<normalizer_vars, config_vars, compute_vars, writer_vars>>

\* The fit returns, and pca.components_.reshape raises.
FitReshapeRaises ==
  /\ pc = "fit"
  /\ \E model \in RandomizedPCA_fit(image_matrix, n_eigenfaces) :
       /\ ~model.raised
       /\ reshape_3d(model.components_, n_eigenfaces, height, width).raised
       /\ pca' = model
  /\ pc' = "failed"
  /\ error' = "ValueError"
  /\ UNCHANGED <<normalizer_vars, config_vars, rows, image_matrix,
                 eigenvectors, eigenvalues, mean_face, eigenfaces,
                 writer_vars>>

\* The fit returns and its directions are reshaped into images.
Fit ==
  /\ pc = "fit"
  /\ \E model \in RandomizedPCA_fit(image_matrix, n_eigenfaces) :
       /\ ~model.raised
       /\ ~reshape_3d(model.components_, n_eigenfaces, height, width).raised
       /\ pca' = model
       /\ eigenvectors' =
            reshape_3d(model.components_, n_eigenfaces, height, width).value
       /\ eigenvalues' = model.explained_variance_ratio_
  /\ pc' = "mean"
  /\ UNCHANGED <<normalizer_vars, config_vars, rows, image_matrix, mean_face,
                 eigenfaces, writer_vars, error>>

\* mean_face = np.mean(image_matrix, axis=0).reshape((height, width))
MeanFace ==
  /\ pc = "mean"
  /\ mean_face' = Unravel(np_mean_axis0(image_matrix), height, width)
  /\ pc' = "render"
  /\ UNCHANGED <<normalizer_vars, config_vars, rows, image_matrix, pca,
                 eigenvectors, eigenvalues, eigenfaces, writer_vars, error>>

\* A zip that is a lazy iterator: nothing is drawn before the caller loops.
zip_lazy == TRUE

\* zip has drawn every eigenface and eigenvalue.
zip_exhausted ==
  Len(eigenfaces) = Min(Len(eigenvectors), Len(eigenvalues))

\* The k-th pair with the eigenvalues taken in ascending order.
zip_pair_ascending(k) ==
  <<Minus(eigenvectors[k], mean_face),
    eigenvalues[Len(eigenvalues) - k + 1]>>

\* The k-th pair of zip(eigenfaces, eigenvalues).
zip_pair(k) == <<Minus(eigenvectors[k], mean_face), eigenvalues[k]>>

\* zip draws the next eigenface from the generator and pairs it with the
\* next eigenvalue.
Render ==
  /\ pc = "render"
  /\ ~zip_exhausted
  /\ eigenfaces' = Append(eigenfaces, zip_pair(Len(eigenfaces) + 1))
  /\ UNCHANGED <<pc, normalizer_vars, config_vars, rows, image_matrix, pca,
                 eigenvectors, eigenvalues, mean_face, writer_vars, error>>

\* compute_eigenfaces returns (mean_face, pairs, pca) to plot_eigenfaces.
Return ==
  /\ pc = "render"
  /\ zip_exhausted
  /\ pc' = "save_mean"
  /\ UNCHANGED <<normalizer_vars, config_vars, compute_vars, writer_vars,
                 error>>

\* _imsave(path, matrix), completed: _makedirs, then matimage.imsave.
_imsave(d, path, matrix) == Stored(d, path, Png(matrix))

\* _serialize(obj, path), completed: _makedirs, then the gzipped pickle.
_serialize(d, obj, path) == Stored(d, path, Pickle(obj))

\* The path of the k-th eigenface image.
outpath(k) == EigenfacePath(eigenfaces[k][2])

SaveMean ==
  /\ pc = "save_mean"
  /\ dir' = _imsave(dir, MeanPath, mean_face)
  /\ written' = Append(written, <<"mean", 0>>)
  /\ pc' = "save_eigenfaces"
  /\ UNCHANGED <<normalizer_vars, config_vars, compute_vars, i, error>>

SaveMeanFails ==
  /\ pc = "save_mean"
  /\ dir' \in Interrupted(dir, MeanPath)
  /\ pc' = "failed"
  /\ error' = "IOError"
  /\ UNCHANGED <<normalizer_vars, config_vars, compute_vars, i, written>>

\* One iteration of the loop over enumerate(eigenfaces, start=1).
SaveEigenface ==
  /\ pc = "save_eigenfaces"
  /\ i < Len(eigenfaces)
  /\ i' = i + 1
  /\ dir' = _imsave(dir, outpath(i + 1), eigenfaces[i + 1][1])
  /\ written' = Append(written, <<"eigenface", i + 1>>)
  /\ UNCHANGED <<pc, normalizer_vars, config_vars, compute_vars, error>>

SaveEigenfaceFails ==
  /\ pc = "save_eigenfaces"
  /\ i < Len(eigenfaces)
  /\ i' = i + 1
  /\ dir' \in Interrupted(dir, outpath(i + 1))
  /\ pc' = "failed"
  /\ error' = "IOError"
  /\ UNCHANGED <<normalizer_vars, config_vars, compute_vars, written>>

SaveModel ==
  /\ pc = "save_eigenfaces"
  /\ i = Len(eigenfaces)
  /\ dir' = _serialize(dir, pca, ModelPath)
  /\ written' = Append(written, <<"model", 0>>)
  /\ pc' = "done"
  /\ UNCHANGED <<normalizer_vars, config_vars, compute_vars, i, error>>

SaveModelFails ==
  /\ pc = "save_eigenfaces"
  /\ i = Len(eigenfaces)
  /\ dir' \in Interrupted(dir, ModelPath)
  /\ pc' = "failed"
  /\ error' = "IOError"
  /\ UNCHANGED <<normalizer_vars, config_vars, compute_vars, i, written>>

Next == ReadFails \/ NormalizeFails \/ Normalize \/ Assemble \/ FitRaises
          \/ FitReshapeRaises \/ Fit \/ MeanFace \/ Render \/ Return
          \/ SaveMean \/ SaveMeanFails \/ SaveEigenface \/ SaveEigenfaceFails
          \/ SaveModel \/ SaveModelFails

Spec == Init /\ [][Next]_vars

\* ------------------------------------------------------------------ claims
\* Helpers of the statements below.
Called == pc \in {"returned", "raised"}
ActualHeight == Len(image.data)
ActualWidth == Len(image.data[1])
At(r, c) == (r - 1) * width + c

\* The shapes the normalizer's rules reconcile with (h, w): a single-channel
\* image of that shape, or with one dimension equal and the other smaller; a
\* multi-channel image with h * w pixels per channel.
Fits(img, h, w) ==
  IF img.ndim = 3
    THEN Len(img.data) * Len(img.data[1]) = h * w
    ELSE \/ Len(img.data) = h /\ Len(img.data[1]) = w
         \/ Len(img.data) < h /\ Len(img.data[1]) = w
         \/ Len(img.data) = h /\ Len(img.data[1]) < w

\* _reshape returns exactly on the shapes of Fits.
ReshapeReturnsIffFits ==
  Called => (pc = "returned" <=> Fits(image, height, width))

\* C1: every image, single-channel or with a trailing channel dimension,
\* whose height or width is strictly greater than the target makes _reshape
\* raise; it never returns a vector.
C1_OversizedAlwaysRaises ==
  (Called /\ (ActualHeight > height \/ ActualWidth > width)) => pc = "raised"

\* C5: a single-channel image of the target width and D >= 1 rows short comes
\* back as its row-major flattening followed by D rows of zeros; one of the
\* target height and D columns short comes back with D zeros appended to
\* each row.
C5_ZeroPadding ==
  (Called /\ image.ndim = 2) =>
    /\ (ActualWidth = width /\ ActualHeight < height) =>
         /\ pc = "returned"
         /\ Len(vector.value) = height * width
         /\ \A r \in 1..height, c \in 1..width :
              vector.value[At(r, c)] =
                IF r <= ActualHeight THEN image.data[r][c] ELSE 0
    /\ (ActualHeight = height /\ ActualWidth < width) =>
         /\ pc = "returned"
         /\ Len(vector.value) = height * width
         /\ \A r \in 1..height, c \in 1..width :
              vector.value[At(r, c)] =
                IF c <= ActualWidth THEN image.data[r][c] ELSE 0

\* A one-row image with a non-zero sample was padded with two rows.
C5_Witness ==
  /\ pc = "returned"
  /\ image.ndim = 2
  /\ ActualWidth = width
  /\ width >= 2
  /\ height - ActualHeight = 2
  /\ \E c \in 1..width : image.data[1][c] # 0

\* C6: an image with a trailing channel dimension and the target height and
\* width comes back as the row-major flattening of channel 0, whatever the
\* other channels hold.
C6_FirstChannelOnly ==
  (Called /\ image.ndim = 3 /\ ActualHeight = height /\ ActualWidth = width) =>
    /\ pc = "returned"
    /\ Len(vector.value) = height * width
    /\ \A r \in 1..height, c \in 1..width :
         vector.value[At(r, c)] = image.data[r][c][1]

\* A two-channel image, at least 2 x 2, whose channels differ was normalized.
C6_Witness ==
  /\ pc = "returned"
  /\ image.ndim = 3
  /\ ActualHeight = height /\ ActualWidth = width
  /\ height >= 2 /\ width >= 2
  /\ Len(image.data[1][1]) = 2
  /\ \E r \in 1..height, c \in 1..width :
       image.data[r][c][2] # image.data[r][c][1]

\* The k-th path holds a readable image the normalizer's rules refuse.
RefusedAt(k) ==
  /\ image_paths[k] # Unreadable
  /\ ~Fits(image_paths[k], height, width)

Paths == 1..Len(image_paths)
Returned == pc \in {"save_mean", "save_eigenfaces", "done"}
FilesNamed(d, base) == {p \in DOMAIN d.files : p[1] = base}

\* C2: a completed run into an empty output directory leaves exactly one mean
\* image, n_eigenfaces eigenface images and one model file.
C2_OneFilePerComponent ==
  (pc = "done" /\ DOMAIN dir0.files = {}) =>
    /\ Cardinality(FilesNamed(dir, "mean-face.png")) = 1
    /\ Cardinality(FilesNamed(dir, "%.4f%%.png")) = n_eigenfaces
    /\ Cardinality(FilesNamed(dir, "pca.pickle.gz")) = 1

\* C3: when some path holds an image the normalizer refuses, the run never
\* gets past loading and the output directory is never touched.
C3_NoOutputOnShapeError ==
  (\E k \in Paths : RefusedAt(k)) =>
    /\ pc \in {"load", "failed"}
    /\ Len(rows) < Len(image_paths)
    /\ dir = dir0
    /\ written = <<>>

\* The second of two images was refused and no directory was created.
C3_Witness ==
  /\ pc = "failed"
  /\ error = "ValueError"
  /\ Len(image_paths) = 2
  /\ Len(rows) = 1
  /\ RefusedAt(2)
  /\ dir0 = NoDir
  /\ dir = NoDir

\* C4: with n_eigenfaces > min(N, D) the run fails at the fit (lines 116-117)
\* before anything is rendered or written; a result that is returned always
\* has n_eigenfaces basis images.
C4_TooManyComponents ==
  /\ (n_eigenfaces > Min(Len(image_paths), height * width)) =>
       /\ pc \in {"load", "fit", "failed"}
       /\ eigenvectors = <<>>
       /\ mean_face = <<>>
       /\ eigenfaces = <<>>
       /\ written = <<>>
       /\ dir = dir0
  /\ Returned => Len(eigenfaces) = n_eigenfaces

\* The fit gave fewer directions than requested, and the run failed there.
C4_Witness ==
  /\ pc = "failed"
  /\ error = "ValueError"
  /\ Len(image_matrix) = Len(image_paths)
  /\ n_eigenfaces > Min(Len(image_paths), height * width)
  /\ pca # NoPCA
  /\ Len(pca.components_) < n_eigenfaces

\* C7: the observation matrix has one row of height * width samples per path,
\* row k being _reshape of the k-th image; with any unreadable or refused
\* image there is no matrix and the fit never runs.
C7_RowsInInputOrder ==
  /\ image_matrix # <<>> =>
       /\ Len(image_matrix) = Len(image_paths)
       /\ \A k \in Paths :
            /\ image_paths[k] # Unreadable
            /\ Len(image_matrix[k]) = height * width
            /\ image_matrix[k] = _reshape(image_paths[k], height, width).value
  /\ (\E k \in Paths : image_paths[k] = Unreadable \/ RefusedAt(k)) =>
       /\ image_matrix = <<>>
       /\ pca = NoPCA
       /\ pc \in {"load", "failed"}

\* Two different images, the first one padded, were stacked.
C7_Witness ==
  /\ pc = "fit"
  /\ Len(image_matrix) = 2
  /\ image_matrix[1] # image_matrix[2]
  /\ Shape(image_paths[1]) # <<height, width>>
  /\ Shape(image_paths[2]) = <<height, width>>

\* The total of column c of the observation matrix.
ColumnTotal(c) ==
  LET total[n \in 0..Len(image_matrix)] ==
        IF n = 0 THEN 0 ELSE total[n - 1] + image_matrix[n][c]
  IN  total[Len(image_matrix)]

\* C9: compute_eigenfaces returns n_eigenfaces pairs; the k-th pairs the k-th
\* direction, reshaped to (height, width), minus the mean image, with the k-th
\* explained-variance ratio; the mean image is the column-wise mean of the
\* observation matrix reshaped to (height, width).
C9_PairsInOrder ==
  Returned =>
    LET n == Len(image_matrix)
    IN  /\ Len(eigenfaces) = n_eigenfaces
        /\ \A r \in 1..height, c \in 1..width :
             mean_face[r][c] = <<ColumnTotal(At(r, c)), n>>
        /\ \A k \in 1..n_eigenfaces :
             /\ eigenfaces[k][2] = pca.explained_variance_ratio_[k]
             /\ \A r \in 1..height, c \in 1..width :
                  eigenfaces[k][1][r][c] =
                    <<pca.components_[k][At(r, c)] * n - ColumnTotal(At(r, c)), n>>

\* Two components with different ratios were rendered against a mean that is
\* not a whole number.
C9_Witness ==
  /\ pc = "save_mean"
  /\ n_eigenfaces = 2
  /\ eigenfaces[1][2] # eigenfaces[2][2]
  /\ Len(image_matrix) = 2
  /\ \E r \in 1..height, c \in 1..width : mean_face[r][c] = <<1, 2>>

\* The write of the j-th entry of written: its path and its data.
PathOf(a) ==
  IF a[1] = "mean" THEN MeanPath
  ELSE IF a[1] = "model" THEN ModelPath
  ELSE outpath(a[2])

DataOf(a) ==
  IF a[1] = "mean" THEN Png(mean_face)
  ELSE IF a[1] = "model" THEN Pickle(pca)
  ELSE Png(eigenfaces[a[2]][1])

ExpectedWrites ==
  <<<<"mean", 0>>>> \o [k \in 1..n_eigenfaces |-> <<"eigenface", k>>]
    \o <<<<"model", 0>>>>

WriteFailed ==
  pc = "failed" /\ error = "IOError" /\ Len(rows) = Len(image_paths)

\* C8: the writes happen in the order mean, eigenfaces 1..K, model; after a
\* failed write every artifact written before it is still in the directory
\* as written, and after a failed image write the model file is as it was
\* before the run.
C8_EarlierArtifactsKept ==
  /\ Len(written) <= Len(ExpectedWrites)
  /\ \A j \in 1..Len(written) : written[j] = ExpectedWrites[j]
  /\ WriteFailed =>
       /\ \A j \in 1..Len(written) :
            /\ PathOf(written[j]) \in DOMAIN dir.files
            /\ dir.files[PathOf(written[j])] = DataOf(written[j])
       /\ Len(written) <= n_eigenfaces =>
            IF ModelPath \in DOMAIN dir0.files
              THEN /\ ModelPath \in DOMAIN dir.files
                   /\ dir.files[ModelPath] = dir0.files[ModelPath]
              ELSE ModelPath \notin DOMAIN dir.files

\* C10: every image is loaded and normalized before the fit, the fit is done
\* before the mean image or any basis image is rendered, and every basis
\* image is rendered before the first write.
C10_StagesInOrder ==
  /\ (pc \notin {"load", "failed"} \/ image_matrix # <<>> \/ pca # NoPCA) =>
       /\ Len(rows) = Len(image_paths)
       /\ Len(image_matrix) = Len(image_paths)
  /\ (mean_face # <<>> \/ eigenfaces # <<>>) =>
       /\ pca # NoPCA
       /\ Len(eigenvectors) = n_eigenfaces
  /\ (written # <<>> \/ dir # dir0 \/ i > 0 \/ Returned) =>
       /\ mean_face # <<>>
       /\ Len(eigenfaces) = n_eigenfaces

\* The first eigenface is on disk, the second is rendered and not yet written.
C10_Witness ==
  /\ pc = "save_eigenfaces"
  /\ n_eigenfaces = 2
  /\ i = 1
  /\ Len(written) = 2
  /\ Len(eigenfaces) = 2

====
